---- MODULE Spec2Model ----
(***************************************************************************)
(* Model of xffts2netcdf.py: the Struct2NetCDF converter (layout parsing,  *)
(* struct compilation, dataset creation, record append) and the main()     *)
(* conversion loop that drives it over a binary input file.                *)
(*                                                                         *)
(* Python values are encoded as follows.                                   *)
(*  - a format string is the sequence of its characters;                   *)
(*  - a config item (a Python tuple) is a record: arity is len(item),      *)
(*    name and fmt are item[0] and item[1], shape describes item[2] (an    *)
(*    int n is [int |-> TRUE, dims |-> <<n>>], a tuple is                  *)
(*    [int |-> FALSE, dims |-> the tuple]);                                *)
(*  - a decoded leaf is a sequence of naturals: <<v>> for an integer v,    *)
(*    the bytes themselves for an 's' field;                               *)
(*  - a NumPy array is its shape together with its row-major buffer.       *)
(*  - a row read back from a netCDF variable is such an array whose         *)
(*    elements are stored leaves or masked.                                 *)
(***************************************************************************)
EXTENDS Integers, Sequences, FiniteSets, TLC

VARIABLES args, xffts, netcdf, dataset, f, g, pc, err, raiser, n_struct, i, n_ok

vars == <<args, xffts, netcdf, dataset, f, g, pc, err, raiser, n_struct, i, n_ok>>

(***************************************************************************)
(* Bounds                                                                  *)
(***************************************************************************)
MaxFileLen == 6

(***************************************************************************)
(* Small helpers                                                           *)
(***************************************************************************)
Max(a, b) == IF a >= b THEN a ELSE b

Min(a, b) == IF a <= b THEN a ELSE b

RECURSIVE Prod(_)
\* np.prod over a tuple of ints
Prod(s) == IF Len(s) = 0 THEN 1 ELSE Head(s) * Prod(Tail(s))

RECURSIVE Repeat(_, _)
\* Python's str * n (empty for n <= 0)
Repeat(s, n) == IF n <= 0 THEN <<>> ELSE s \o Repeat(s, n - 1)

Take(s, n) == SubSeq(s, 1, Min(n, Len(s)))

Drop(s, n) == SubSeq(s, Min(n, Len(s)) + 1, Len(s))

(***************************************************************************)
(* struct module: format characters, sizes, parsing and unpacking          *)
(***************************************************************************)
Digits == {"0", "1", "2", "3", "4", "5", "6", "7", "8", "9"}

DigitVal(c) ==
    CASE c = "0" -> 0 [] c = "1" -> 1 [] c = "2" -> 2 [] c = "3" -> 3
      [] c = "4" -> 4 [] c = "5" -> 5 [] c = "6" -> 6 [] c = "7" -> 7
      [] c = "8" -> 8 [] c = "9" -> 9

\* format characters of struct in standard ('<' or '>') mode
StructCodes == {"x", "c", "b", "B", "?", "h", "H", "i", "I", "l", "L",
                "q", "Q", "e", "f", "d", "s", "p"}

\* standard size in bytes of one item of the format character
StdSize(c) ==
    CASE c \in {"x", "c", "b", "B", "?", "s", "p"} -> 1
      [] c \in {"h", "H", "e"} -> 2
      [] c \in {"i", "I", "l", "L", "f"} -> 4
      [] c \in {"q", "Q", "d"} -> 8

RECURSIVE ParseFormat(_, _, _, _, _)
\* Struct(fmt): the format compiled to a sequence of (count, code) tokens;
\* ok is FALSE where struct raises struct.error
ParseFormat(chars, k, cnt, has, acc) ==
    IF k > Len(chars)
    THEN [ok |-> ~has, toks |-> acc]
    ELSE IF chars[k] \in Digits
    THEN ParseFormat(chars, k + 1, cnt * 10 + DigitVal(chars[k]), TRUE, acc)
    ELSE IF chars[k] \in StructCodes
    THEN ParseFormat(chars, k + 1, 0, FALSE,
             Append(acc, [rep |-> IF has THEN cnt ELSE 1, code |-> chars[k]]))
    ELSE [ok |-> FALSE, toks |-> acc]

Struct(chars) == ParseFormat(chars, 1, 0, FALSE, <<>>)

RECURSIVE StructSize(_)
\* Struct.size
StructSize(toks) ==
    IF Len(toks) = 0 THEN 0
    ELSE Head(toks).rep * StdSize(Head(toks).code) + StructSize(Tail(toks))

SignedCodes == {"b", "h", "i", "l", "q"}

RECURSIVE BytesToInt(_, _)
\* the integer held by a run of bytes given least significant byte first
\* (two's complement when signed)
BytesToInt(bs, signed) ==
    IF Len(bs) = 0 THEN 0
    ELSE IF Len(bs) = 1
    THEN (IF signed /\ Head(bs) >= 128 THEN Head(bs) - 256 ELSE Head(bs))
    ELSE Head(bs) + 256 * BytesToInt(Tail(bs), signed)

RECURSIVE Reverse(_)
Reverse(s) == IF Len(s) = 0 THEN <<>> ELSE Append(Reverse(Tail(s)), Head(s))

\* one item of format character c read in the given byte order; a 'c' item
\* is its byte, a '?' item is 0 or 1, a float item is its raw bit pattern
UnpackNumber(byteorder, c, bs) ==
    IF c = "?" THEN <<Min(Head(bs), 1)>>
    ELSE <<BytesToInt(IF byteorder = "<" THEN bs ELSE Reverse(bs),
                      c \in SignedCodes)>>

RECURSIVE UnpackItems(_, _, _, _)
\* n consecutive items of format character c
UnpackItems(byteorder, c, n, bs) ==
    IF n = 0 THEN <<>>
    ELSE <<UnpackNumber(byteorder, c, Take(bs, StdSize(c)))>>
         \o UnpackItems(byteorder, c, n - 1, Drop(bs, StdSize(c)))

RECURSIVE Unpack(_, _, _)
\* Struct.unpack: the flat tuple of leaves of one buffer of Struct.size bytes
Unpack(byteorder, toks, bs) ==
    IF Len(toks) = 0 THEN <<>>
    ELSE LET t == Head(toks)
             w == t.rep * StdSize(t.code)
             leaves == CASE t.code = "x" -> <<>>
                         [] t.code = "s" -> <<Take(bs, w)>>
                         [] t.code = "p" ->
                              IF w = 0 THEN << <<>> >>
                              ELSE <<Take(SubSeq(bs, 2, w), Head(bs))>>
                         [] OTHER -> UnpackItems(byteorder, t.code, t.rep, Take(bs, w))
         IN  leaves \o Unpack(byteorder, Tail(toks), Drop(bs, w))

\* number of leaves Struct.unpack returns
RECURSIVE LeafCount(_)
LeafCount(toks) ==
    IF Len(toks) = 0 THEN 0
    ELSE (CASE Head(toks).code = "x" -> 0
            [] Head(toks).code \in {"s", "p"} -> 1
            [] OTHER -> Head(toks).rep) + LeafCount(Tail(toks))

(***************************************************************************)
(* Struct2NetCDF: construction                                             *)
(***************************************************************************)
\* the shape of an item that gives none: item[2:] is empty, so (1,)
NoShape == [int |-> FALSE, dims |-> <<1>>]

RECURSIVE DictSet(_, _, _)
\* OrderedDict.__setitem__: a new key is appended, an existing key keeps
\* its position and takes the new value
DictSet(d, key, val) ==
    IF Len(d) = 0 THEN <<[name |-> key, fmt |-> val.fmt, shape |-> val.shape]>>
    ELSE IF Head(d).name = key
    THEN <<[name |-> key, fmt |-> val.fmt, shape |-> val.shape]>> \o Tail(d)
    ELSE <<Head(d)>> \o DictSet(Tail(d), key, val)

RECURSIVE ParseItems(_, _)
\* the loop of parse_config over the remaining items
ParseItems(config, parsed) ==
    IF Len(config) = 0 THEN [err |-> "none", parsed |-> parsed]
    ELSE LET item == Head(config)
         IN  IF ~(2 <= item.arity /\ item.arity <= 3)
             THEN [err |-> "ValueError", parsed |-> parsed]
             ELSE LET shape == IF item.arity = 2 THEN NoShape.dims
                               ELSE item.shape.dims
                  IN  ParseItems(Tail(config),
                          DictSet(parsed, item.name,
                                  [fmt |-> item.fmt, shape |-> shape]))

parse_config(config) == ParseItems(config, <<>>)

RECURSIVE JoinFormats(_)
\* ''.join(c*np.prod(s) for c, s in self.config.values())
JoinFormats(parsed) ==
    IF Len(parsed) = 0 THEN <<>>
    ELSE Repeat(Head(parsed).fmt, Prod(Head(parsed).shape))
         \o JoinFormats(Tail(parsed))

create_struct(parsed) == Struct(JoinFormats(parsed))

Contains(chars, set) == \E k \in 1..Len(chars) : chars[k] \in set

\* re.search over the format string, in the order of the if/elif chain;
\* "error" where the function raises ValueError
convert_fmt_to_dtype(fmt) ==
    IF Contains(fmt, {"b", "h", "i", "l", "B", "H", "I", "L"}) THEN "int32"
    ELSE IF Contains(fmt, {"q", "Q"}) THEN "int64"
    ELSE IF Contains(fmt, {"e", "f"}) THEN "float32"
    ELSE IF Contains(fmt, {"d"}) THEN "float64"
    ELSE IF Contains(fmt, {"c", "s", "p"}) THEN "str"
    ELSE IF Contains(fmt, {"?"}) THEN "bool"
    ELSE "error"

\* the dataset Dataset(path, 'w') creates, after createDimension(unlimited_dim)
EmptyDataset == [ulen |-> 0, dims |-> <<>>, vars |-> <<>>]

\* the fixed dimensions created for one field: (name, position, size)
FieldDims(name, shape) ==
    IF shape = <<1>> THEN <<>>
    ELSE [k \in 1..Len(shape) |-> [name |-> name, pos |-> k - 1, size |-> shape[k]]]

RECURSIVE CreateVariables(_, _)
\* the loop of create_empty_dataset over the remaining fields
CreateVariables(parsed, ds) ==
    IF Len(parsed) = 0 THEN [err |-> "none", ds |-> ds]
    ELSE LET fld == Head(parsed)
             dtype == convert_fmt_to_dtype(fld.fmt)
             dims == FieldDims(fld.name, fld.shape)
         IN  IF dtype = "error" THEN [err |-> "ValueError", ds |-> ds]
             ELSE CreateVariables(Tail(parsed),
                      [ds EXCEPT !.dims = @ \o dims,
                                 !.vars = Append(@, [name |-> fld.name,
                                                     dtype |-> dtype,
                                                     dims |-> dims,
                                                     data |-> <<>>])])

create_empty_dataset(parsed) == CreateVariables(parsed, EmptyDataset)

\* the writer object before __init__ has returned
NoWriter == [constructed |-> FALSE, config |-> <<>>, struct |-> <<>>,
             byteorder |-> "<", readsize |-> 0, n_write |-> 0]

\* the initial value of the writing counter
InitialCounter == 0

\* a constructor that looks for an existing file only after it has created
\* the dataset
Struct2NetCDFCheckingLate(a, disk) ==
    LET p == parse_config(a.config) IN
    IF p.err # "none"
    THEN [err |-> p.err, g |-> NoWriter, netcdf |-> disk, dataset |-> "none"]
    ELSE LET st == create_struct(p.parsed) IN
    IF ~st.ok
    THEN [err |-> "struct.error", g |-> NoWriter, netcdf |-> disk,
          dataset |-> "none"]
    ELSE LET c == create_empty_dataset(p.parsed) IN
    IF c.err # "none"
    THEN [err |-> c.err, g |-> NoWriter,
          netcdf |-> [state |-> "dataset", ds |-> c.ds], dataset |-> "open"]
    ELSE IF disk.state # "absent" /\ ~a.overwrite
    THEN [err |-> "FileExistsError", g |-> NoWriter,
          netcdf |-> [state |-> "dataset", ds |-> c.ds], dataset |-> "open"]
    ELSE [err |-> "none",
          g |-> [constructed |-> TRUE, config |-> p.parsed,
                 struct |-> st.toks, byteorder |-> a.byteorder,
                 readsize |-> StructSize(st.toks),
                 n_write |-> InitialCounter],
          netcdf |-> [state |-> "dataset", ds |-> c.ds],
          dataset |-> "open"]

\* Struct2NetCDF.__init__(path, config, overwrite, byteorder) run against the
\* file system entry `disk` of path: the exception raised (or "none"), the
\* writer, the entry left at path and the state of the dataset handle
Struct2NetCDF(a, disk) ==
    IF disk.state # "absent" /\ ~a.overwrite
    THEN [err |-> "FileExistsError", g |-> NoWriter, netcdf |-> disk,
          dataset |-> "none"]
    ELSE LET p == parse_config(a.config) IN
         IF p.err # "none"
         THEN [err |-> p.err, g |-> NoWriter, netcdf |-> disk, dataset |-> "none"]
         ELSE LET st == create_struct(p.parsed) IN
         IF ~st.ok
         THEN [err |-> "struct.error", g |-> NoWriter, netcdf |-> disk,
               dataset |-> "none"]
         ELSE LET c == create_empty_dataset(p.parsed) IN
         IF c.err # "none"
         THEN [err |-> c.err, g |-> NoWriter,
               netcdf |-> [state |-> "dataset", ds |-> c.ds], dataset |-> "open"]
         ELSE [err |-> "none",
               g |-> [constructed |-> TRUE, config |-> p.parsed,
                      struct |-> st.toks, byteorder |-> a.byteorder,
                      readsize |-> StructSize(st.toks),
                      n_write |-> InitialCounter],
               netcdf |-> [state |-> "dataset", ds |-> c.ds],
               dataset |-> "open"]

(***************************************************************************)
(* Struct2NetCDF: write                                                    *)
(***************************************************************************)
\* np.reshape(flat, shape): the same buffer under the given shape
Reshape(flat, shape) == [shape |-> shape, flat |-> flat]

\* a scalar value stored in one row
Scalar(leaf) == [shape |-> <<>>, flat |-> <<leaf>>]

\* an element of a variable on disk: a stored leaf, or masked where nothing
\* was ever stored
Cell(leaf) == [masked |-> FALSE, value |-> leaf]

Masked == [masked |-> TRUE, value |-> <<>>]

\* an array as it reads back from the variable it was stored in
Stored(val) ==
    [shape |-> val.shape, flat |-> [k \in 1..Len(val.flat) |-> Cell(val.flat[k])]]

\* the shape of one row of a variable: its dimensions after the unlimited one
RowShape(v) == [k \in 1..Len(v.dims) |-> v.dims[k].size]

\* a row of a variable that was never assigned: all elements masked
Fill(v) == [shape |-> RowShape(v), flat |-> [k \in 1..Prod(RowShape(v)) |-> Masked]]

\* variable[row] = val on the variable `name`: the unlimited dimension grows
\* to row + 1 when it was shorter, unassigned rows of every variable reading
\* as masked; an array of no elements stores nothing
Assign(ds, name, row, val) ==
    LET newlen == Max(ds.ulen, row + 1)
        Pad(v) == v.data \o [k \in 1..(newlen - Len(v.data)) |-> Fill(v)]
    IN  IF Len(val.flat) = 0 THEN ds
        ELSE [ds EXCEPT !.ulen = newlen,
                        !.vars = [k \in 1..Len(ds.vars) |->
                            [ds.vars[k] EXCEPT !.data =
                                IF ds.vars[k].name = name
                                THEN [Pad(ds.vars[k]) EXCEPT ![row + 1] = Stored(val)]
                                ELSE Pad(ds.vars[k])]]]

RECURSIVE WriteFields(_, _, _, _, _, _)
\* the loop of write over the fields k, k+1, ... with the leaves still in the
\* deque; the store of field failAt raises (failAt = 0: no store raises)
WriteFields(config, k, data, ds, n_write, failAt) ==
    IF k > Len(config) THEN [err |-> "none", ds |-> ds]
    ELSE LET fld == config[k]
             n == IF fld.shape = <<1>> THEN 1 ELSE Prod(fld.shape)
         IN  IF Len(data) < n
             THEN [err |-> "IndexError", ds |-> ds]
             ELSE IF k = failAt
             THEN [err |-> "RuntimeError", ds |-> ds]
             ELSE WriteFields(config, k + 1, Drop(data, n),
                      Assign(ds, fld.name, n_write,
                             IF fld.shape = <<1>> THEN Scalar(Head(data))
                             ELSE Reshape(Take(data, n), fld.shape)),
                      n_write, failAt)

\* a counter that skips a row
AdvanceCounterByTwo(n) == n + 2

\* the counter after the fields of one record were stored
AdvanceCounter(n) == n + 1

\* a write that counts the record before its fields are stored, so that a
\* failing store leaves the counter advanced
WriteCountingFirst(w, ds, binary, failAt) ==
    IF Len(binary) = 0
    THEN [err |-> "EOFError", ds |-> ds, n_write |-> w.n_write]
    ELSE IF Len(binary) # w.readsize
    THEN [err |-> "AssertionError", ds |-> ds, n_write |-> w.n_write]
    ELSE LET r == WriteFields(w.config, 1,
                      Unpack(w.byteorder, w.struct, binary), ds,
                      w.n_write, failAt)
         IN  [err |-> r.err, ds |-> r.ds, n_write |-> AdvanceCounter(w.n_write)]

\* a write that takes an empty buffer for a record to skip
WriteSkippingEmpty(w, ds, binary, failAt) ==
    IF Len(binary) = 0
    THEN [err |-> "none", ds |-> ds, n_write |-> w.n_write]
    ELSE IF Len(binary) # w.readsize
    THEN [err |-> "AssertionError", ds |-> ds, n_write |-> w.n_write]
    ELSE LET r == WriteFields(w.config, 1,
                      Unpack(w.byteorder, w.struct, binary), ds,
                      w.n_write, failAt)
         IN  [err |-> r.err, ds |-> r.ds,
              n_write |-> IF r.err = "none" THEN AdvanceCounter(w.n_write)
                          ELSE w.n_write]

\* Struct2NetCDF.write(binary): the exception raised (or "none"), the dataset
\* and the writing counter it leaves
Write(w, ds, binary, failAt) ==
    IF Len(binary) = 0
    THEN [err |-> "EOFError", ds |-> ds, n_write |-> w.n_write]
    ELSE IF Len(binary) # w.readsize
    THEN [err |-> "AssertionError", ds |-> ds, n_write |-> w.n_write]
    ELSE LET r == WriteFields(w.config, 1,
                      Unpack(w.byteorder, w.struct, binary), ds,
                      w.n_write, failAt)
         IN  [err |-> r.err, ds |-> r.ds,
              n_write |-> IF r.err = "none" THEN AdvanceCounter(w.n_write)
                          ELSE w.n_write]

\* an __exit__ that does not close
WriterExitKeepingOpen(handle) == handle

\* Struct2NetCDF.__exit__: self.close(), the dataset's close
WriterExit(handle) == "closed"

\* the input file object's __exit__
FileExit(handle) == [handle EXCEPT !.state = "closed"]

(***************************************************************************)
(* Inputs                                                                  *)
(***************************************************************************)
Item2(name, fmt) == [arity |-> 2, name |-> name, fmt |-> fmt, shape |-> NoShape]

ItemInt(name, fmt, n) ==
    [arity |-> 3, name |-> name, fmt |-> fmt, shape |-> [int |-> TRUE, dims |-> <<n>>]]

ItemTuple(name, fmt, dims) ==
    [arity |-> 3, name |-> name, fmt |-> fmt, shape |-> [int |-> FALSE, dims |-> dims]]

\* config items: scalars, arrays, a fixed-length string, a repeat count on a
\* number, a zero-sized shape, a pad byte, a character struct rejects, and
\* tuples of one and of four elements
Items ==
    { Item2("u", <<"h">>),
      Item2("v", <<"b">>),
      Item2("u", <<"2", "s">>),
      Item2("u", <<"2", "b">>),
      Item2("v", <<"0", "b">>),
      Item2("v", <<"x">>),
      Item2("v", <<"z">>),
      ItemInt("v", <<"b">>, 2),
      ItemTuple("u", <<"b">>, <<2, 2>>),
      ItemTuple("v", <<"b">>, <<0>>),
      [arity |-> 1, name |-> "u", fmt |-> <<>>, shape |-> NoShape],
      [arity |-> 4, name |-> "v", fmt |-> <<"b">>,
       shape |-> [int |-> TRUE, dims |-> <<2>>]] }

\* layouts of one or two items
Configs == {<<a>> : a \in Items} \cup {<<a, b>> : a, b \in Items}

\* an input file of n bytes; byte k holds k, so that every position of the
\* file is told from every other
InputFile(n) == [k \in 1..n |-> k]

Absent == [state |-> "absent", ds |-> EmptyDataset]

\* a file left at the output path by an earlier run
Old == [state |-> "old", ds |-> EmptyDataset]

(***************************************************************************)
(* main()                                                                  *)
(***************************************************************************)
Init ==
    /\ args \in [config : Configs, overwrite : BOOLEAN, byteorder : {"<", ">"}]
    /\ xffts \in {InputFile(n) : n \in 0..MaxFileLen}
    /\ netcdf \in {Absent, Old}
    /\ dataset = "none"
    /\ f = [state |-> "none", pos |-> 0]
    /\ g = NoWriter
    /\ pc = "Start"
    /\ err = "none"
    /\ raiser = "none"
    /\ n_struct = 0
    /\ i = 0
    /\ n_ok = 0

\* line 192: the input file is opened, then the converter is constructed; an
\* exception of the constructor leaves the with statement through the input
\* file's __exit__ alone
EnterWith ==
    /\ pc = "Start"
    /\ LET c == Struct2NetCDF(args, netcdf)
           opened == [state |-> "open", pos |-> 0]
       IN  /\ netcdf' = c.netcdf
           /\ dataset' = c.dataset
           /\ g' = c.g
           /\ err' = c.err
           /\ IF c.err = "none"
              THEN /\ pc' = "Opening"
                   /\ f' = opened
                   /\ raiser' = "none"
              ELSE /\ pc' = "Failed"
                   /\ f' = FileExit(opened)
                   /\ raiser' = "__init__"
    /\ UNCHANGED <<args, xffts, n_struct, i, n_ok>>

\* a size check that accepts every size
MisalignedIgnored(filesize, readsize) == FALSE

\* line 196: the condition the assert rejects
Misaligned(filesize, readsize) == filesize % readsize # 0

\* lines 193-197: the size check and the record count
Opening ==
    /\ pc = "Opening"
    /\ LET filesize == Len(xffts)
           readsize == g.readsize
       IN  IF readsize = 0
           THEN /\ err' = "ZeroDivisionError"
                /\ raiser' = "main"
                /\ pc' = "Failed"
                /\ dataset' = WriterExit(dataset)
                /\ f' = FileExit(f)
                /\ UNCHANGED n_struct
           ELSE IF Misaligned(filesize, readsize)
           THEN /\ err' = "AssertionError"
                /\ raiser' = "main"
                /\ pc' = "Failed"
                /\ dataset' = WriterExit(dataset)
                /\ f' = FileExit(f)
                /\ UNCHANGED n_struct
           ELSE /\ n_struct' = filesize \div readsize
                /\ pc' = "Streaming"
                /\ UNCHANGED <<err, raiser, dataset, f>>
    /\ UNCHANGED <<args, xffts, netcdf, g, i, n_ok>>

\* f.read(size): the bytes from the file position on, at most size of them
Read(file, pos, size) == Take(Drop(file, pos), size)

\* lines 199-201: one iteration of the loop, a read and a write; storing a
\* field may fail in the dataset library (failAt)
Iterate ==
    /\ pc = "Streaming"
    /\ i < n_struct
    /\ \E failAt \in 0..Len(g.config) :
         LET binary == Read(xffts, f.pos, g.readsize)
             w == Write(g, netcdf.ds, binary, failAt)
             advanced == [f EXCEPT !.pos = @ + Len(binary)]
         IN  /\ netcdf' = [netcdf EXCEPT !.ds = w.ds]
             /\ g' = [g EXCEPT !.n_write = w.n_write]
             /\ err' = w.err
             /\ IF w.err = "none"
                THEN /\ i' = i + 1
                     /\ n_ok' = n_ok + 1
                     /\ f' = advanced
                     /\ UNCHANGED <<pc, raiser, dataset>>
                ELSE /\ pc' = "Failed"
                     /\ raiser' = "write"
                     /\ dataset' = WriterExit(dataset)
                     /\ f' = FileExit(advanced)
                     /\ UNCHANGED <<i, n_ok>>
    /\ UNCHANGED <<args, xffts, n_struct>>

\* the loop is exhausted: the with statement ends, both __exit__ run
Finish ==
    /\ pc = "Streaming"
    /\ i = n_struct
    /\ pc' = "Finished"
    /\ dataset' = WriterExit(dataset)
    /\ f' = FileExit(f)
    /\ UNCHANGED <<args, xffts, netcdf, g, err, raiser, n_struct, i, n_ok>>

\* the environment: the input file is cut short by another process while the
\* conversion streams it (after its size was taken)
Truncate ==
    /\ pc = "Streaming"
    /\ i < n_struct
    /\ \E n \in 0..(Len(xffts) - 1) : xffts' = Take(xffts, n)
    /\ UNCHANGED <<args, netcdf, dataset, f, g, pc, err, raiser, n_struct, i, n_ok>>

Next == EnterWith \/ Opening \/ Iterate \/ Finish \/ Truncate

Spec == Init /\ [][Next]_vars

TypeOK ==
    /\ pc \in {"Start", "Opening", "Streaming", "Finished", "Failed"}
    /\ dataset \in {"none", "open", "closed"}
    /\ f.state \in {"none", "open", "closed"}
    /\ netcdf.state \in {"absent", "old", "dataset"}
    /\ i \in 0..MaxFileLen /\ n_struct \in 0..MaxFileLen /\ n_ok \in 0..MaxFileLen

(***************************************************************************)
(* Properties                                                              *)
(***************************************************************************)
Terminated == pc \in {"Finished", "Failed"}

\* C1: the writing counter is 0 once the writer is constructed, no step
\* lowers it, a write that returns normally raises it by exactly 1, and in
\* every state it equals the number of write calls that returned normally.
CounterCountsSuccessfulWrites ==
    /\ [](g.constructed => (g.n_write = n_ok /\ (pc = "Opening" => g.n_write = 0)))
    /\ [][/\ g'.n_write \in {g.n_write, g.n_write + 1}
          /\ g'.n_write = g.n_write + 1 <=> n_ok' = n_ok + 1]_vars

CounterWitness == g.constructed /\ n_ok >= 2 /\ g.n_write = n_ok

\* C2: a write call that raises (empty buffer, wrong buffer length, a
\* failure while a field is stored) leaves the writing counter as it was.
FailedWriteKeepsCounter ==
    [][(pc = "Streaming" /\ pc' = "Failed") => g'.n_write = g.n_write]_vars

FailedWriteWitness ==
    /\ pc = "Failed" /\ raiser = "write" /\ err = "RuntimeError"
    /\ g.n_write >= 1
    /\ netcdf.ds.ulen = g.n_write + 1

\* C3: constructing the writer on an existing path without overwrite raises
\* FileExistsError and leaves the file at the path as it was: no dataset is
\* created and no handle is opened.
ExistingFileIsKept ==
    [][(pc = "Start" /\ netcdf.state = "old" /\ ~args.overwrite)
          => /\ err' = "FileExistsError"
             /\ pc' = "Failed"
             /\ netcdf' = netcdf
             /\ dataset' = "none"
             /\ ~g'.constructed]_vars

ExistingFileWitness ==
    err = "FileExistsError" /\ netcdf.state = "old" /\ pc = "Failed"

\* C4: an input whose size is not a multiple of the record size makes the
\* size check raise before any record is read or written: the file position
\* and the writing counter stay 0 and the dataset keeps no row.
MisalignedFailsBeforeAnyWrite ==
    [][(pc = "Opening" /\ g.readsize > 0 /\ Len(xffts) % g.readsize # 0)
          => /\ pc' = "Failed"
             /\ err' = "AssertionError" /\ raiser' = "main"
             /\ f'.pos = 0
             /\ g'.n_write = 0 /\ n_ok' = 0
             /\ netcdf' = netcdf
             /\ netcdf.ds.ulen = 0]_vars

MisalignedWitness ==
    /\ pc = "Failed" /\ raiser = "main" /\ err = "AssertionError"
    /\ Len(xffts) > g.readsize
    /\ netcdf.ds.ulen = 0

\* C5: the record count is the file size divided by the record size; the
\* conversion finishes only after that many records were appended, the
\* dataset being closed as it finishes; an empty read before that many
\* appends ends the conversion in failure with the end-of-file error.
FinishedOnlyAfterAllRecords ==
    [][/\ (pc = "Opening" /\ pc' = "Streaming")
            => n_struct' * g.readsize = Len(xffts)
       /\ pc' = "Finished"
            => /\ g'.n_write = n_struct' /\ n_ok' = n_struct'
               /\ dataset' = "closed"
       /\ (/\ pc = "Streaming" /\ i < n_struct /\ xffts' = xffts
           /\ Read(xffts, f.pos, g.readsize) = <<>>)
            => (pc' = "Failed" /\ err' = "EOFError")]_vars

FinishedWitness == pc = "Finished" /\ n_struct = 2 /\ g.n_write = 2

PrematureEndWitness ==
    pc = "Failed" /\ err = "EOFError" /\ n_ok >= 1 /\ n_ok < n_struct

\* C7: when the conversion has ended, the input file is closed, and so is
\* the dataset of a writer that was constructed, whether the loop finished,
\* the size check failed or a read or write raised.
HandlesReleasedOnExit ==
    Terminated =>
        /\ f.state = "closed"
        /\ (g.constructed => dataset = "closed")

HandlesReleasedWitness ==
    /\ pc = "Failed" /\ raiser = "write" /\ n_ok >= 1
    /\ f.state = "closed" /\ dataset = "closed"

(***************************************************************************)
(* What a record's fields hold, read off the layout alone                  *)
(***************************************************************************)
\* bytes one field occupies in a record: the size of its format, once per
\* element of its shape
FieldWidth(fld) == StructSize(Struct(fld.fmt).toks) * Prod(fld.shape)

RECURSIVE FieldOffset(_, _)
\* bytes of a record that precede field k
FieldOffset(config, k) ==
    IF k = 1 THEN 0
    ELSE FieldOffset(config, k - 1) + FieldWidth(config[k - 1])

\* the values of field k decoded from one record, in the field's shape
FieldValue(byteorder, config, k, record) ==
    LET fld == config[k]
        bytes == Take(Drop(record, FieldOffset(config, k)), FieldWidth(fld))
        leaves == Unpack(byteorder,
                         Struct(Repeat(fld.fmt, Prod(fld.shape))).toks, bytes)
    IN  IF fld.shape = <<1>> /\ Len(leaves) = 1 THEN Scalar(leaves[1])
        ELSE Reshape(leaves, fld.shape)

\* record r (from 0) of the input file
Record(file, readsize, r) == Take(Drop(file, r * readsize), readsize)

\* leaves the loop of write takes from the deque for one record
RECURSIVE ConsumedLeaves(_)
ConsumedLeaves(config) ==
    IF Len(config) = 0 THEN 0
    ELSE (IF Head(config).shape = <<1>> THEN 1 ELSE Prod(Head(config).shape))
         + ConsumedLeaves(Tail(config))

\* C6: after a conversion that finishes, the record axis is as long as the
\* record count and row r of every variable holds the values of its field
\* decoded from record r of the input file, in the field's shape.
FinishedDatasetHoldsTheRecords ==
    pc = "Finished" =>
        /\ netcdf.ds.ulen = n_struct
        /\ \A k \in 1..Len(g.config) :
             /\ netcdf.ds.vars[k].name = g.config[k].name
             /\ Len(netcdf.ds.vars[k].data) = n_struct
             /\ \A r \in 0..(n_struct - 1) :
                  netcdf.ds.vars[k].data[r + 1] =
                      Stored(FieldValue(g.byteorder, g.config, k,
                                        Record(xffts, g.readsize, r)))

\* C8: when the conversion has ended, finished or failed, the record axis of
\* the dataset on disk is as long as the writing counter.
AxisLengthIsTheCounter ==
    (Terminated /\ g.constructed) => netcdf.ds.ulen = g.n_write

\* the layout faults construction is to reject
WrongArity(item) == ~(2 <= item.arity /\ item.arity <= 3)

RepeatedName(config) ==
    \E m, n \in 1..Len(config) : m # n /\ config[m].name = config[n].name

NonPositiveShape(item) ==
    item.arity = 3 /\ \E k \in 1..Len(item.shape.dims) : item.shape.dims[k] <= 0

UnrecognizedTag(item) == convert_fmt_to_dtype(item.fmt) = "error"

InvalidLayout(config) ==
    \/ RepeatedName(config)
    \/ \E k \in 1..Len(config) :
         WrongArity(config[k]) \/ NonPositiveShape(config[k])
           \/ UnrecognizedTag(config[k])

\* C9: construction from a layout with a tuple of wrong arity, a repeated
\* name, a non-positive shape element or an unrecognized tag fails with a
\* validation error before a decoder or a dataset is created.
InvalidLayoutIsRejected ==
    (pc # "Start" /\ err # "FileExistsError" /\ InvalidLayout(args.config))
        => /\ raiser = "__init__"
           /\ err \in {"ValueError", "struct.error"}
           /\ dataset = "none"
           /\ netcdf.state # "dataset"

\* C10: for a layout the constructor accepted, a record is written only
\* when the leaves decoded from it are as many as the leaves the fields
\* take: one per scalar field, the product of the shape per array field.
DecodedLeavesAreConsumed ==
    (g.constructed /\ n_ok > 0) => LeafCount(g.struct) = ConsumedLeaves(g.config)

====
